---- MODULE Spec2Model ----
(***************************************************************************)
(* Model of src/lock_file/resolve.rs: the two entry points resolve_pypi    *)
(* and resolve_conda.  Each async function is cut at its await points; the *)
(* collaborators it calls (the source resolver, the metadata cache, the    *)
(* binary solver, the blocking worker pool) appear through the values they *)
(* hand back.                                                              *)
(***************************************************************************)
EXTENDS Integers, Sequences, FiniteSets, TLC

VARIABLES
    \* ---- resolve_pypi (one call) ----
    resolution,       \* what pypi::resolve_dependencies yields for this call's inputs
    package_db,       \* the metadata cache: artifacts list -> result of get_metadata
    ppc,              \* position of the resolve_pypi future
    pb_message,       \* the progress bar's message
    python_artifacts, \* the resolver's list (line 35)
    pidx,             \* number of candidates the for loop has finished
    locked_packages,  \* the list being built (line 51)
    presult,          \* what resolve_pypi handed to its caller
    resolve_calls,    \* invocations of pypi::resolve_dependencies
    lookups,          \* the get_metadata calls made: <<artifacts, builder>>
    \* ---- resolve_conda (one entry per concurrent call) ----
    request,          \* what each caller holds: the contract's inputs
    cpc,              \* position of each resolve_conda future
    worker,           \* state of the blocking task each call spawned
    task,             \* the SolverTask the closure built
    closure,          \* what the spawned closure captured (the four arguments)
    join,             \* what the JoinHandle resolves to
    cresult,          \* what resolve_conda handed to its caller
    solve_calls       \* invocations of Solver.solve per call

pvars == <<resolution, package_db, ppc, pb_message, python_artifacts, pidx,
           locked_packages, presult, resolve_calls, lookups>>
cvars == <<request, cpc, worker, closure, task, join, cresult, solve_calls>>
vars == <<resolution, package_db, ppc, pb_message, python_artifacts, pidx,
          locked_packages, presult, resolve_calls, lookups,
          request, cpc, worker, closure, task, join, cresult, solve_calls>>

\* ------------------------------------------------------------------ bounds
MaxCands == 2
NumCondaCalls == 2

\* ------------------------------------------------------------ Option, Result
None == <<>>
Some(x) == <<x>>
Ok(v) == [ok |-> TRUE, val |-> v]
Err(e) == [ok |-> FALSE, err |-> e]

\* Option::and_then
and_then(opt, f(_)) == IF opt = None THEN None ELSE f(opt[1])

Range(s) == {s[k] : k \in 1..Len(s)}
NoDup(s) == \A a, b \in 1..Len(s) : a # b => s[a] # s[b]
SeqsUpTo(S, n) == UNION {[1..k -> S] : k \in 0..n}

\* ------------------------------------------------------------- pypi: data
\* rip's Extra keeps the text it was made from and its normalized form.
ExtraDev == [source |-> "Dev", normalized |-> "dev"]
ExtraTest == [source |-> "TEST", normalized |-> "test"]

\* Extra::as_str followed by to_string (line 77)
as_str(e) == e.normalized


\* ArtifactInfo: url and the optional hashes record with its optional sha256.
ArtNoHashes == [url |-> "https://files/a.whl", hashes |-> None]
ArtNoSha == [url |-> "https://files/b.tar.gz", hashes |-> Some([sha256 |-> None])]
ArtSha == [url |-> "https://files/c.whl", hashes |-> Some([sha256 |-> Some("d1c3")])]
ArtifactLists == {<<ArtNoHashes, ArtNoSha>>, <<ArtNoSha, ArtSha>>}

\* Metadata of an artifact: requires_dist and requires_python.
Metas == {[requires_dist |-> <<>>, requires_python |-> None],
          [requires_dist |-> <<"dep>=1">>, requires_python |-> Some(">=3.8")]}

PkgNames == {[normalized |-> "foo"], [normalized |-> "bar"], [normalized |-> "baz"]}
Versions == {"1.0", "2.0"}

\* rip's PinnedPackage
Candidates(names, versions, iters, artlists) ==
    {[name |-> n, version |-> v, extras |-> x, artifacts |-> a] :
        n \in names, v \in versions, x \in iters, a \in artlists}

\* A resolution pins each package once: the lists the resolver can return.
CandidateLists(C) ==
    {s \in SeqsUpTo(C, MaxCands) :
        \A a, b \in 1..Len(s) : a # b => s[a].name # s[b].name}

ResolveErrors == {"no solution", "build failed"}

\* get_metadata's possible answers for one artifacts list
LookupResults(arts) ==
    {Err("io"), Ok(None)} \cup
    {Ok(Some(<<arts[k], m>>)) : k \in 1..Len(arts), m \in Metas}

Dbs(artlists) == {f \in [artlists -> UNION {LookupResults(a) : a \in artlists}] :
                    \A a \in artlists : f[a] \in LookupResults(a)}

\* ------------------------------------------------------- pypi: operations
\* PackageDb::get_metadata(&artifacts, None): with no WheelBuilder it can only
\* answer from what solving already fetched or built.
get_metadata(db, artifacts, builder) == db[artifacts]

\* rattler_lock's PackageHashes::from_hashes(md5, sha256)
from_hashes(md5, sha256) ==
    IF md5 = None /\ sha256 = None THEN None
    ELSE IF md5 = None THEN Some([kind |-> "Sha256", sha256 |-> sha256[1]])
    ELSE IF sha256 = None THEN Some([kind |-> "Md5", md5 |-> md5[1]])
    ELSE Some([kind |-> "Md5Sha256", md5 |-> md5[1], sha256 |-> sha256[1]])

HashOfSha256(hash) == from_hashes(None, hash.sha256)

\* a hash made whenever a hashes record exists, whatever it holds
HashOfAnyRecord(artifact) ==
    IF artifact.hashes = None THEN None
    ELSE Some([kind |-> "Sha256",
               sha256 |-> IF artifact.hashes[1].sha256 = None THEN ""
                          ELSE artifact.hashes[1].sha256[1]])

\* lines 67-70
HashOf(artifact) == and_then(artifact.hashes, HashOfSha256)

\* NormalizedPackageName's to_string (line 62)
NameToString(name) == name.normalized

\* collect() into PypiPackageEnvironmentData.extras, a set of strings: equal
\* strings merge, and the set iterates in an order of its own, not the order
\* the items arrived in.  The result is written as the sequences iterating it
\* can yield.
collect(it) == {s \in [1..Cardinality(Range(it)) -> Range(it)] : NoDup(s)}

\* the extras by the text they were written with rather than normalized
MappedExtrasBySource(python_artifact) ==
    [k \in 1..Len(python_artifact.extras) |-> python_artifact.extras[k].source]

\* lines 74-77: into_iter().map(|e| e.as_str().to_string())
MappedExtras(python_artifact) ==
    [k \in 1..Len(python_artifact.extras) |-> as_str(python_artifact.extras[k])]

\* the url of the candidate's first artifact, not of the one get_metadata chose
PkgDataFirstUrl(python_artifact, artifact, metadata) ==
    [name |-> NameToString(python_artifact.name),
     version |-> python_artifact.version,
     requires_dist |-> metadata.requires_dist,
     requires_python |-> metadata.requires_python,
     url |-> python_artifact.artifacts[1].url,
     hash |-> HashOf(artifact)]

\* lines 61-71
PkgData(python_artifact, artifact, metadata) ==
    [name |-> NameToString(python_artifact.name),
     version |-> python_artifact.version,
     requires_dist |-> metadata.requires_dist,
     requires_python |-> metadata.requires_python,
     url |-> artifact.url,
     hash |-> HashOf(artifact)]

\* lines 73-79
PkgEnvs(python_artifact) ==
    {[extras |-> x] : x \in collect(MappedExtras(python_artifact))}

Pending == [kind |-> "Pending"]
Returned(r) == [kind |-> "Returned", value |-> r]
Panicked(p) == [kind |-> "Panicked", payload |-> p]

ExpectResultMsg ==
    "failed to get metadata for a package for which we have already fetched metadata during solving."
ExpectOptionMsg ==
    "no metadata for a package for which we have already fetched metadata during solving."

\* a loop that pushes the last candidate's pair once more before returning
LoopFromReplayLast(done, list, built) ==
    IF done < Len(list)
    THEN /\ lookups' = Append(lookups, <<list[done + 1].artifacts, None>>)
         /\ ppc' = "lookup"
         /\ presult' = presult
    ELSE /\ lookups' = lookups
         /\ ppc' = "returned"
         /\ presult' = Returned(Ok(IF built = <<>> THEN built
                                    ELSE Append(built, built[Len(built)])))

\* The for loop (line 52) from the candidate after `done`: either it asks for
\* the next candidate's metadata and suspends, or the list is exhausted and the
\* function returns (line 84).
LoopFrom(done, list, built) ==
    IF done < Len(list)
    THEN /\ lookups' = Append(lookups, <<list[done + 1].artifacts, None>>)
         /\ ppc' = "lookup"
         /\ presult' = presult
    ELSE /\ lookups' = lookups
         /\ ppc' = "returned"
         /\ presult' = Returned(Ok(built))

\* lines 33-45, up to the await on the resolver
PypiStart ==
    /\ ppc = "idle"
    /\ pb_message' = "resolving pypi dependencies"
    /\ resolve_calls' = resolve_calls + 1
    /\ ppc' = "resolving"
    /\ UNCHANGED <<resolution, package_db, python_artifacts, pidx,
                   locked_packages, presult, lookups>>
    /\ UNCHANGED cvars

\* a resolver failure swallowed: the call goes on with no candidates
ResolverDoneSwallow ==
    /\ ppc = "resolving"
    /\ IF ~resolution.ok
       THEN /\ python_artifacts' = <<>>
            /\ pb_message' = ""
            /\ locked_packages' = <<>>
            /\ LoopFrom(0, <<>>, <<>>)
       ELSE /\ python_artifacts' = resolution.val
            /\ pb_message' = ""
            /\ locked_packages' = <<>>
            /\ LoopFrom(0, resolution.val, <<>>)
    /\ UNCHANGED <<resolution, package_db, pidx, resolve_calls>>
    /\ UNCHANGED cvars

\* line 45 (`.await?`) to the first get_metadata call of the loop
ResolverDone ==
    /\ ppc = "resolving"
    /\ IF ~resolution.ok
       THEN /\ presult' = Returned(Err(resolution.err))
            /\ ppc' = "returned"
            /\ UNCHANGED <<python_artifacts, pb_message, locked_packages, lookups>>
       ELSE /\ python_artifacts' = resolution.val
            /\ pb_message' = ""
            /\ locked_packages' = <<>>
            /\ LoopFrom(0, resolution.val, <<>>)
    /\ UNCHANGED <<resolution, package_db, pidx, resolve_calls>>
    /\ UNCHANGED cvars

\* a candidate without metadata skipped instead of faulting
MetadataDoneSkip ==
    /\ ppc = "lookup"
    /\ LET python_artifact == python_artifacts[pidx + 1]
           r == get_metadata(package_db, python_artifact.artifacts, None)
       IN  IF ~r.ok \/ r.val = None
           THEN /\ pidx' = pidx + 1
                /\ UNCHANGED locked_packages
                /\ LoopFrom(pidx + 1, python_artifacts, locked_packages)
           ELSE \E pkg_env \in PkgEnvs(python_artifact) :
                LET artifact == r.val[1][1]
                    metadata == r.val[1][2]
                    pushed == Append(locked_packages,
                                     <<PkgData(python_artifact, artifact, metadata),
                                       pkg_env>>)
                IN  /\ locked_packages' = pushed
                    /\ pidx' = pidx + 1
                    /\ LoopFrom(pidx + 1, python_artifacts, pushed)
    /\ UNCHANGED <<resolution, package_db, pb_message, python_artifacts,
                   resolve_calls>>
    /\ UNCHANGED cvars

\* lines 53-82: get_metadata answers; the two expects, the push, then on to
\* the next candidate or to the return
MetadataDone ==
    /\ ppc = "lookup"
    /\ LET python_artifact == python_artifacts[pidx + 1]
           r == get_metadata(package_db, python_artifact.artifacts, None)
       IN  IF ~r.ok
           THEN /\ presult' = Panicked([msg |-> ExpectResultMsg, cause |-> Some(r.err)])
                /\ ppc' = "panicked"
                /\ UNCHANGED <<pidx, locked_packages, lookups>>
           ELSE IF r.val = None
           THEN /\ presult' = Panicked([msg |-> ExpectOptionMsg, cause |-> None])
                /\ ppc' = "panicked"
                /\ UNCHANGED <<pidx, locked_packages, lookups>>
           ELSE \E pkg_env \in PkgEnvs(python_artifact) :
                LET artifact == r.val[1][1]
                    metadata == r.val[1][2]
                    pushed == Append(locked_packages,
                                     <<PkgData(python_artifact, artifact, metadata),
                                       pkg_env>>)
                IN  /\ locked_packages' = pushed
                    /\ pidx' = pidx + 1
                    /\ LoopFrom(pidx + 1, python_artifacts, pushed)
    /\ UNCHANGED <<resolution, package_db, pb_message, python_artifacts,
                   resolve_calls>>
    /\ UNCHANGED cvars

NextPypi == PypiStart \/ ResolverDone \/ MetadataDone

\* ------------------------------------------------------------ conda: data
CondaCalls == 1..NumCondaCalls

\* MatchSpec: a name and the least version it accepts.
SpecA1 == [name |-> "pkgA", min |-> 1]
SpecA2 == [name |-> "pkgA", min |-> 2]
SpecGlibc == [name |-> "__glibc", min |-> 2]

\* RepoDataRecord
PkgA1 == [name |-> "pkgA", version |-> 1]
PkgA2 == [name |-> "pkgA", version |-> 2]

\* GenericVirtualPackage
VirtGlibc == [name |-> "__glibc", version |-> 2]

\* What a caller holds when it asks for a binary solve: the specs, the pinned
\* set, and the rest (virtual packages, locked set, pools, timeout).
Requests(specs, pinneds, rests) ==
    {[specs |-> s, virtual_packages |-> r.virtual_packages,
      locked_packages |-> r.locked_packages, pinned_packages |-> p,
      available_packages |-> r.available_packages, timeout |-> r.timeout] :
        s \in specs, p \in pinneds, r \in rests}

\* one channel, nothing locked, no time bound
RestBare ==
    [virtual_packages |-> <<>>, locked_packages |-> <<>>,
     available_packages |-> << <<PkgA1>> >>, timeout |-> None]
\* two channels, a virtual package, a locked record and a time bound
RestFull ==
    [virtual_packages |-> <<VirtGlibc>>, locked_packages |-> <<PkgA1>>,
     available_packages |-> << <<PkgA1>>, <<PkgA2>> >>, timeout |-> Some(30)]

PanicPayloads == {"index out of bounds", "arithmetic overflow"}

\* ------------------------------------------------------ conda: operations
RECURSIVE Flatten(_)
Flatten(ss) == IF ss = <<>> THEN <<>> ELSE Head(ss) \o Flatten(Tail(ss))

Satisfies(rec, spec) == rec.name = spec.name /\ rec.version >= spec.min

FirstWhere(s, P(_)) ==
    IF \E k \in 1..Len(s) : P(s[k])
    THEN Some(s[CHOOSE k \in 1..Len(s) : P(s[k]) /\ \A j \in 1..(k - 1) : ~P(s[j])])
    ELSE None

\* The record the solver takes for one spec: a pinned record of that name is
\* forced, else a locked record that satisfies is kept, else the first record
\* of the pools (in channel order) that satisfies; a virtual package that
\* satisfies the spec needs no record.
Pick(t, spec) ==
    LET named(r) == r.name = spec.name
        sat(r) == Satisfies(r, spec)
        pinned == FirstWhere(t.pinned_packages, named)
        locked == FirstWhere(t.locked_packages, sat)
        pooled == FirstWhere(Flatten(t.available_packages), sat)
    IN  IF pinned # None THEN Some(pinned)
        ELSE IF \E k \in 1..Len(t.virtual_packages) : sat(t.virtual_packages[k])
             THEN Some(None)
        ELSE IF locked # None THEN Some(locked)
        ELSE IF pooled # None THEN Some(pooled)
        ELSE None

RECURSIVE Chosen(_, _)
Chosen(t, specs) ==
    IF specs = <<>> THEN <<>>
    ELSE Pick(t, Head(specs))[1] \o Chosen(t, Tail(specs))

\* resolvo::Solver.solve(task): a locked set, or the conflict naming the
\* specs nothing satisfies.
Solve(t) ==
    LET unsat == {k \in 1..Len(t.specs) : Pick(t, t.specs[k]) = None}
    IN  IF unsat = {} THEN Ok(Chosen(t, t.specs))
        ELSE Err([conflict |-> {t.specs[k].name : k \in unsat}])

\* miette's IntoDiagnostic::into_diagnostic
into_diagnostic(r) == IF r.ok THEN r ELSE Err([diagnostic |-> r.err])

\* miette::miette!("cancelled")
Cancelled == [message |-> "cancelled"]

\* JoinError
JoinPanic(p) == [repr |-> "Panic", payload |-> p]
JoinCancelled == [repr |-> "Cancelled"]

\* JoinError::try_into_panic
try_into_panic(e) == IF e.repr = "Panic" THEN Ok(e.payload) ELSE Err(e)

\* lines 90-95: the four parameters, moved into the closure (line 96)
Arguments(req) ==
    [specs |-> req.specs,
     virtual_packages |-> req.virtual_packages,
     locked_packages |-> req.locked_packages,
     available_packages |-> req.available_packages]

\* a task whose pinned set is filled from the locked set
SolverTaskPinLocked(c) ==
    [specs |-> c.specs,
     available_packages |-> c.available_packages,
     locked_packages |-> c.locked_packages,
     pinned_packages |-> c.locked_packages,
     virtual_packages |-> c.virtual_packages,
     timeout |-> None]

\* lines 98-105
SolverTask(c) ==
    [specs |-> c.specs,
     available_packages |-> c.available_packages,
     locked_packages |-> c.locked_packages,
     pinned_packages |-> <<>>,
     virtual_packages |-> c.virtual_packages,
     timeout |-> None]

\* the solve run in place on the scheduler's thread: it cannot start while
\* another call's solve is queued or running
CondaStartInPlace(i) ==
    /\ cpc[i] = "idle"
    /\ \A j \in CondaCalls : worker[j] \notin {"queued", "running"}
    /\ closure' = [closure EXCEPT ![i] = Some(Arguments(request[i]))]
    /\ worker' = [worker EXCEPT ![i] = "queued"]
    /\ cpc' = [cpc EXCEPT ![i] = "awaiting"]
    /\ UNCHANGED <<request, task, join, cresult, solve_calls>>
    /\ UNCHANGED pvars

\* line 96: spawn_blocking queues the closure; line 110: the caller awaits
CondaStart(i) ==
    /\ cpc[i] = "idle"
    /\ closure' = [closure EXCEPT ![i] = Some(Arguments(request[i]))]
    /\ worker' = [worker EXCEPT ![i] = "queued"]
    /\ cpc' = [cpc EXCEPT ![i] = "awaiting"]
    /\ UNCHANGED <<request, task, join, cresult, solve_calls>>
    /\ UNCHANGED pvars

\* lines 97-108: a pool thread takes the closure, builds the task and enters
\* the solver
WorkerBegin(i) ==
    /\ worker[i] = "queued"
    /\ task' = [task EXCEPT ![i] = Some(SolverTask(closure[i][1]))]
    /\ solve_calls' = [solve_calls EXCEPT ![i] = @ + 1]
    /\ worker' = [worker EXCEPT ![i] = "running"]
    /\ UNCHANGED <<request, cpc, closure, join, cresult>>
    /\ UNCHANGED pvars

\* line 108: the solver returns and the closure's value completes the handle
WorkerReturn(i) ==
    /\ worker[i] = "running"
    /\ join' = [join EXCEPT ![i] = Some(Ok(into_diagnostic(Solve(task[i][1]))))]
    /\ worker' = [worker EXCEPT ![i] = "done"]
    /\ UNCHANGED <<request, cpc, closure, task, cresult, solve_calls>>
    /\ UNCHANGED pvars

\* the closure panics inside the solver: the handle completes with the payload
WorkerPanic(i) ==
    /\ worker[i] = "running"
    /\ \E p \in PanicPayloads :
          join' = [join EXCEPT ![i] = Some(Err(JoinPanic(p)))]
    /\ worker' = [worker EXCEPT ![i] = "done"]
    /\ UNCHANGED <<request, cpc, closure, task, cresult, solve_calls>>
    /\ UNCHANGED pvars

\* the pool drops the closure before running it (runtime shutdown): the
\* handle completes with a JoinError that carries no panic
WorkerAbandon(i) ==
    /\ worker[i] = "queued"
    /\ join' = [join EXCEPT ![i] = Some(Err(JoinCancelled))]
    /\ worker' = [worker EXCEPT ![i] = "done"]
    /\ UNCHANGED <<request, cpc, closure, task, cresult, solve_calls>>
    /\ UNCHANGED pvars

\* a caller that is woken only by a closure that ran: a handle completed by
\* abandonment leaves it suspended
CondaResumeUnlessAbandoned(i) ==
    /\ cpc[i] = "awaiting"
    /\ join[i] # None
    /\ LET j == join[i][1]
       IN  /\ IF j.ok THEN TRUE ELSE try_into_panic(j.err).ok
           /\ IF j.ok
              THEN /\ cresult' = [cresult EXCEPT ![i] = Returned(j.val)]
                   /\ cpc' = [cpc EXCEPT ![i] = "returned"]
              ELSE /\ cresult' = [cresult EXCEPT ![i] =
                                     Panicked(try_into_panic(j.err).val)]
                   /\ cpc' = [cpc EXCEPT ![i] = "panicked"]
    /\ UNCHANGED <<request, worker, closure, task, join, solve_calls>>
    /\ UNCHANGED pvars

\* every JoinError, a panic included, reported as the cancelled failure
CondaResumeMaskPanic(i) ==
    /\ cpc[i] = "awaiting"
    /\ join[i] # None
    /\ LET j == join[i][1]
       IN  IF j.ok
           THEN /\ cresult' = [cresult EXCEPT ![i] = Returned(j.val)]
                /\ cpc' = [cpc EXCEPT ![i] = "returned"]
           ELSE /\ cresult' = [cresult EXCEPT ![i] = Returned(Err(Cancelled))]
                /\ cpc' = [cpc EXCEPT ![i] = "returned"]
    /\ UNCHANGED <<request, worker, closure, task, join, solve_calls>>
    /\ UNCHANGED pvars

\* lines 110-114: the caller resumes with the handle's value
CondaResume(i) ==
    /\ cpc[i] = "awaiting"
    /\ join[i] # None
    /\ LET j == join[i][1]
       IN  IF j.ok
           THEN /\ cresult' = [cresult EXCEPT ![i] = Returned(j.val)]
                /\ cpc' = [cpc EXCEPT ![i] = "returned"]
           ELSE LET e == try_into_panic(j.err)
                IN  IF e.ok
                    THEN /\ cresult' = [cresult EXCEPT ![i] = Panicked(e.val)]
                         /\ cpc' = [cpc EXCEPT ![i] = "panicked"]
                    ELSE /\ cresult' = [cresult EXCEPT ![i] = Returned(Err(Cancelled))]
                         /\ cpc' = [cpc EXCEPT ![i] = "returned"]
    /\ UNCHANGED <<request, worker, closure, task, join, solve_calls>>
    /\ UNCHANGED pvars

CondaStep(i) ==
    \/ CondaStart(i)
    \/ WorkerBegin(i)
    \/ WorkerReturn(i)
    \/ WorkerPanic(i)
    \/ WorkerAbandon(i)
    \/ CondaResume(i)

NextConda == \E i \in CondaCalls : CondaStep(i)

\* ------------------------------------------------------- specifications
InitWith(resolutions, dbs, requests) ==
    /\ resolution \in resolutions
    /\ package_db \in dbs
    /\ ppc = "idle"
    /\ pb_message = ""
    /\ python_artifacts = <<>>
    /\ pidx = 0
    /\ locked_packages = <<>>
    /\ presult = Pending
    /\ resolve_calls = 0
    /\ lookups = <<>>
    /\ request \in [CondaCalls -> requests]
    /\ cpc = [i \in CondaCalls |-> "idle"]
    /\ worker = [i \in CondaCalls |-> "none"]
    /\ closure = [i \in CondaCalls |-> None]
    /\ task = [i \in CondaCalls |-> None]
    /\ join = [i \in CondaCalls |-> None]
    /\ cresult = [i \in CondaCalls |-> Pending]
    /\ solve_calls = [i \in CondaCalls |-> 0]

Resolutions(C) ==
    {Err(e) : e \in ResolveErrors} \cup {Ok(l) : l \in CandidateLists(C)}

AllCandidates ==
    Candidates(PkgNames, Versions, {<<>>, <<ExtraDev>>, <<ExtraTest, ExtraDev>>},
               ArtifactLists)
FewCandidates ==
    Candidates({[normalized |-> "foo"]}, {"1.0"}, {<<ExtraTest, ExtraDev>>},
               {<<ArtNoSha, ArtSha>>})

AllRequests ==
    Requests({<<SpecA1>>, <<SpecA2, SpecGlibc>>}, {<<>>, <<PkgA2>>}, {RestBare, RestFull})
FewRequests == Requests({<<SpecA1>>, <<SpecA2>>}, {<<>>}, {RestBare})
OneRequest == Requests({<<SpecA1>>}, {<<>>}, {RestBare})

\* a cache that holds nothing, for the runs where resolve_pypi is not called
EmptyDb == {[a \in {<<ArtNoSha, ArtSha>>} |-> Ok(None)]}

\* one resolve_pypi call over every candidate list and cache content
InitPypi == InitWith(Resolutions(AllCandidates), Dbs(ArtifactLists), OneRequest)
SpecPypi == InitPypi /\ [][NextPypi]_vars

\* concurrent resolve_conda calls over every request
InitConda ==
    InitWith({Err("no solution")}, EmptyDb, AllRequests)
SpecConda == InitConda /\ [][NextConda]_vars

\* the scheduler resumes a task whose JoinHandle has completed
InitCondaFew ==
    InitWith({Err("no solution")}, EmptyDb, FewRequests)
LiveSpecConda ==
    /\ InitCondaFew
    /\ [][NextConda]_vars
    /\ \A i \in CondaCalls : WF_vars(CondaResume(i))

\* both entry points running side by side
Init == InitWith(Resolutions(FewCandidates), Dbs({<<ArtNoSha, ArtSha>>}), FewRequests)
Next == NextPypi \/ NextConda
Spec == Init /\ [][Next]_vars

\* ------------------------------------------------------ claims: resolve_pypi
\* what get_metadata holds for the k-th candidate of the resolver's list
LookupOf(k) == get_metadata(package_db, python_artifacts[k].artifacts, None)
NoMetadata(k) == ~LookupOf(k).ok \/ LookupOf(k).val = None
ChosenArtifact(k) == LookupOf(k).val[1][1]
ChosenMetadata(k) == LookupOf(k).val[1][2]
PypiEnded == ppc \in {"returned", "panicked"}
PypiReturnedOk == ppc = "returned" /\ presult.kind = "Returned" /\ presult.value.ok

\* C3: once the lookup of a candidate has failed or come back empty, the call
\* has ended in a panic: nothing is returned, the candidate is not skipped,
\* each candidate is looked up at most once, in order and without a builder,
\* and the loop stopped at the first such candidate.
C3_MissingMetadataIsFatal ==
    /\ Len(lookups) <= Len(python_artifacts)
    /\ \A k \in 1..Len(lookups) : lookups[k] = <<python_artifacts[k].artifacts, None>>
    /\ \A k \in 1..Len(python_artifacts) :
          (NoMetadata(k) /\ (k <= pidx \/ (k = pidx + 1 /\ PypiEnded)))
          => /\ ppc = "panicked"
             /\ presult.kind = "Panicked"
             /\ presult.payload.msg \in {ExpectResultMsg, ExpectOptionMsg}
             /\ pidx = k - 1
             /\ Len(lookups) = k
    /\ PypiReturnedOk => \A k \in 1..Len(python_artifacts) : ~NoMetadata(k)

\* C3 witness: the second candidate's metadata is absent and the call panicked
\* after the first was locked
C3_Witness ==
    /\ ppc = "panicked"
    /\ pidx = 1
    /\ Len(locked_packages) = 1
    /\ LookupOf(2) = Ok(None)
    /\ presult = Panicked([msg |-> ExpectOptionMsg, cause |-> None])

\* C4: in every pair built, the hash is present exactly when the artifact
\* get_metadata chose has a hashes record holding a sha256 digest, and it then
\* carries that digest; no hashes record, or one without sha256, gives no hash.
C4_HashIffSha256 ==
    \A k \in 1..Len(locked_packages) :
        LET a == ChosenArtifact(k)
            h == locked_packages[k][1].hash
            declared == a.hashes # None /\ a.hashes[1].sha256 # None
        IN  /\ (h # None) <=> declared
            /\ declared => h = Some([kind |-> "Sha256", sha256 |-> a.hashes[1].sha256[1]])

\* C4 witness: a returned list with a hash-less pair from an artifact whose
\* hashes record lacks sha256 and a pair carrying the digest of its artifact
C4_Witness ==
    /\ PypiReturnedOk
    /\ \E a, b \in 1..Len(presult.value.val) :
          /\ ChosenArtifact(a) = ArtNoSha
          /\ presult.value.val[a][1].hash = None
          /\ ChosenArtifact(b) = ArtSha
          /\ presult.value.val[b][1].hash # None

C6_OnePairPerCandidate ==
    PypiReturnedOk =>
        LET out == presult.value.val
        IN  /\ resolution.ok
            /\ Len(out) = Len(resolution.val)
            /\ \A k \in 1..Len(out) :
                  LET c == resolution.val[k]
                      found == package_db[c.artifacts].val[1]
                  IN  /\ out[k][1].name = c.name.normalized
                      /\ out[k][1].version = c.version
                      /\ out[k][1].requires_dist = found[2].requires_dist
                      /\ out[k][1].requires_python = found[2].requires_python
                      /\ out[k][1].url = found[1].url

\* C6 witness: two pairs returned, one of them from the second artifact of its
\* candidate
C6_Witness ==
    /\ PypiReturnedOk
    /\ Len(presult.value.val) = 2
    /\ resolution.val[1].version # resolution.val[2].version
    /\ \E k \in 1..2 : /\ Len(resolution.val[k].artifacts) = 2
                       /\ presult.value.val[k][1].url = resolution.val[k].artifacts[2].url

CondaEnded(i) == cpc[i] \in {"returned", "panicked"}
Abandoned(i) == join[i] = Some(Err(JoinCancelled))
PanickedWith(i, p) == join[i] = Some(Err(JoinPanic(p)))

\* C1: whichever way the worker ended (a locked set, a conflict, a panic, or
\* abandonment), the awaiting caller is eventually resumed, and after an
\* abandonment what it receives is the failure "cancelled".
C1_CallerAlwaysResumed ==
    \A i \in CondaCalls :
        (join[i] # None) ~>
            (/\ CondaEnded(i)
             /\ Abandoned(i) => cresult[i] = Returned(Err([message |-> "cancelled"])))

\* C1 witness: an abandoned worker and its caller holding the cancelled failure
C1_Witness ==
    \E i \in CondaCalls :
        /\ Abandoned(i)
        /\ task[i] = None
        /\ cresult[i] = Returned(Err([message |-> "cancelled"]))

\* C2: a worker's panic reaches the caller as a panic with the same payload,
\* never as a returned value; a conflict returned by the solver reaches the
\* caller as a returned failure wrapping that conflict, never as a panic.
C2_PanicRaisedConflictReturned ==
    \A i \in CondaCalls :
        CondaEnded(i) =>
            /\ \A p \in PanicPayloads :
                  PanickedWith(i, p) => cpc[i] = "panicked" /\ cresult[i] = Panicked(p)
            /\ (join[i][1].ok /\ ~Solve(task[i][1]).ok)
                  => /\ cpc[i] = "returned"
                     /\ cresult[i] = Returned(Err([diagnostic |-> Solve(task[i][1]).err]))
            /\ cresult[i].kind = "Panicked" => \E p \in PanicPayloads : PanickedWith(i, p)

\* C2 witness: one call ended by re-raising a panic, the other by returning a
\* conflict on pkgA and __glibc
C2_Witness ==
    \E i, j \in CondaCalls :
        /\ cresult[i] = Panicked("arithmetic overflow")
        /\ cresult[j] = Returned(Err([diagnostic |-> [conflict |-> {"pkgA", "__glibc"}]]))

\* C8 (as claimed): the task handed to the solver carries the pinned set and
\* the timeout its caller holds.
C8_TaskCarriesCallersPins ==
    \A i \in CondaCalls :
        task[i] # None =>
            /\ task[i][1].pinned_packages = request[i].pinned_packages
            /\ task[i][1].timeout = request[i].timeout

\* C8 (amended): the task carries the caller's specs, virtual packages, locked
\* set and pools unchanged, and always an empty pinned set and no timeout,
\* whatever pinned set or timeout the caller holds.
C8_TaskCarriesFourArguments ==
    \A i \in CondaCalls :
        task[i] # None =>
            /\ task[i][1].specs = request[i].specs
            /\ task[i][1].virtual_packages = request[i].virtual_packages
            /\ task[i][1].locked_packages = request[i].locked_packages
            /\ task[i][1].available_packages = request[i].available_packages
            /\ task[i][1].pinned_packages = <<>>
            /\ task[i][1].timeout = None

\* C8 witness: a task built for a caller that holds a pinned package, a locked
\* package and a timeout
C8_Witness ==
    \E i \in CondaCalls :
        /\ task[i] # None
        /\ request[i].pinned_packages = <<PkgA2>>
        /\ request[i].locked_packages = <<PkgA1>>
        /\ request[i].timeout = Some(30)

\* ------------------------------------------------- claims: both entry points
ResolverFailed == ~resolution.ok /\ ppc = "returned"

\* what is common to C9 as claimed and as amended: a resolver failure is
\* returned as it is, with no lookup and no list, and the resolver is invoked
\* once per call
C9_ResolverPart ==
    /\ resolve_calls = (IF ppc = "idle" THEN 0 ELSE 1)
    /\ ~resolution.ok => lookups = <<>> /\ locked_packages = <<>> /\ ppc # "lookup"
    /\ ResolverFailed => presult = Returned(Err(resolution.err))

\* C9 (as claimed): ... and every resolve_conda call that has ended invoked the
\* solver exactly once.
C9_SolverExactlyOnce ==
    /\ C9_ResolverPart
    /\ \A i \in CondaCalls : CondaEnded(i) => solve_calls[i] = 1

\* C9 (amended): ... and a resolve_conda call invokes the solver at most once:
\* once if its worker ran the closure, not at all if the worker was abandoned
\* before running it.
C9_SolverAtMostOnce ==
    /\ C9_ResolverPart
    /\ \A i \in CondaCalls :
          /\ solve_calls[i] <= 1
          /\ CondaEnded(i) => solve_calls[i] = (IF Abandoned(i) THEN 0 ELSE 1)

\* C9 witness: the resolver failed on a build and the call returned that
\* failure, while a conda call ended after one solve
C9_Witness ==
    /\ ResolverFailed
    /\ presult = Returned(Err("build failed"))
    /\ \E i \in CondaCalls : CondaEnded(i) /\ solve_calls[i] = 1

\* C10: while a call's solve is in flight its caller stays suspended, every
\* other call that has not ended (conda or pypi) can take its next step, and
\* what a call hands back is decided by its own request and its own worker's
\* fate alone.
C10_SolveDoesNotBlockSiblings ==
    \A i \in CondaCalls :
        /\ worker[i] \in {"queued", "running"} =>
              /\ cpc[i] = "awaiting"
              /\ \A j \in CondaCalls \ {i} : ~CondaEnded(j) => ENABLED CondaStep(j)
              /\ ~PypiEnded => ENABLED NextPypi
        /\ (CondaEnded(i) /\ join[i][1].ok) =>
              cresult[i] =
                  Returned(into_diagnostic(Solve(SolverTask(Arguments(request[i])))))

\* C10 witness: one call's solve in flight while the other conda call and the
\* pypi call have both completed, the sibling with a different request
C10_Witness ==
    \E i, j \in CondaCalls :
        /\ worker[i] = "running"
        /\ cpc[j] = "returned"
        /\ join[j][1].ok
        /\ request[i] # request[j]
        /\ ppc = "returned"

====
